---- MODULE Spec2Model ----
(***************************************************************************)
(* Model of the console package: printer.py (markup renderer, progress    *)
(* bar) and console.py (Console session: line buffer, auto_clear).        *)
(*                                                                         *)
(* A text is a sequence of tokens.  '#', '{' and '}' are tokens of their  *)
(* own, every other token stands for a fixed string that contains none of *)
(* them (a letter, a directive name such as "red", a prompt such as ">>", *)
(* an escape code such as "ESC[31m").  None is <<>>, Some(x) is <<x>>.    *)
(***************************************************************************)
EXTENDS Integers, Sequences, FiniteSets, TLC

VARIABLES
  fancy_text,            \* printer.fancy_text, process-wide
  ANSI_COLORS_DISABLED,  \* whether the environment variable is set
  now,                   \* time.time(), in seconds
  buffer_size,           \* per session: Console.buffer_size
  _buffer,               \* per session: Console._buffer
  _title,                \* per session: Console._title
  _last_func_called,     \* per session: Console._last_func_called
  _tic,                  \* per session: Console._tic
  out,                   \* what the last call wrote to stdout
  err,                   \* the exception the last call raised, or "none"
  ret,                   \* what the last call returned
  call,                  \* the last call: its name, session and arguments
  pre,                   \* the session's fields as they were before the last call
  written,               \* per session: raw texts of the completed buffered writes
  prev_op,               \* per session: kind of the last operation that took place
  write_since,           \* per session: whether write was called since then
  nops,                  \* number of session operations and constructor calls so far
  started,               \* per session: the title passed to the last completed start
  disabled,              \* whether fancy text was ever disabled
  input,                 \* a markup text, as the pieces it is built from
  style                  \* a (color, highlight, attributes) argument triple

vars == <<fancy_text, ANSI_COLORS_DISABLED, now, buffer_size, _buffer, _title,
          _last_func_called, _tic, out, err, ret, call, pre, written, prev_op,
          write_since, nops, started, disabled, input, style>>

None == <<>>
Some(x) == <<x>>

\* color=None, highlight=None, attributes=None
NoStyle == [color |-> None, highlight |-> None, attributes |-> None]

\* ------------------------------------------------------------- bounds
MaxDirs == 3      \* directive groups of a single markup run
MaxAttrs == 2     \* attributes in an attribute list argument
MaxRuns == 3      \* pieces of a text with several markup runs
MaxBuf == 2       \* largest buffer_size a session is constructed with
MaxOps == 3       \* session operations and constructor calls in a run
MaxTime == 1      \* clock ticks

\* ------------------------------------------------------------- printer.py
ATTRIBUTES ==
  [bold |-> 1, dark |-> 2, underline |-> 4, blink |-> 5, reverse |-> 7,
   concealed |-> 8]

HIGHLIGHTS ==
  [on_grey |-> 40, on_red |-> 41, on_green |-> 42, on_yellow |-> 43,
   on_blue |-> 44, on_magenta |-> 45, on_cyan |-> 46, on_white |-> 47]

COLORS ==
  [grey |-> 30, red |-> 31, green |-> 32, yellow |-> 33, blue |-> 34,
   magenta |-> 35, cyan |-> 36, white |-> 37]

RESET == "ESC[0m"

\* '\033[%dm' % code
fmt_str(code) == "ESC[" \o ToString(code) \o "m"

\* the escape codes colored can put into a text
EscapeCodes ==
  {RESET} \cup {fmt_str(COLORS[n]) : n \in DOMAIN COLORS}
          \cup {fmt_str(HIGHLIGHTS[n]) : n \in DOMAIN HIGHLIGHTS}
          \cup {fmt_str(ATTRIBUTES[n]) : n \in DOMAIN ATTRIBUTES}

IsEscape(tok) == tok \in EscapeCodes

Ok(v) == [err |-> "none", val |-> v]
Raise(e) == [err |-> e, val |-> <<>>]

\* for attr in attrs: text = fmt_str % (ATTRIBUTES[attr], text)
RECURSIVE colored_attrs(_, _)
colored_attrs(text, attrs) ==
  IF attrs = <<>> THEN Ok(text)
  ELSE IF Head(attrs) \notin DOMAIN ATTRIBUTES THEN Raise("KeyError")
  ELSE colored_attrs(<<fmt_str(ATTRIBUTES[Head(attrs)])>> \o text, Tail(attrs))

\* if color is not None: text = fmt_str % (COLORS[color], text)
with_color(r, color) ==
  IF r.err # "none" \/ color = None THEN r
  ELSE IF color[1] \notin DOMAIN COLORS THEN Raise("KeyError")
  ELSE Ok(<<fmt_str(COLORS[color[1]])>> \o r.val)

\* if on_color is not None: text = fmt_str % (HIGHLIGHTS[on_color], text)
with_highlight(r, on_color) ==
  IF r.err # "none" \/ on_color = None THEN r
  ELSE IF on_color[1] \notin DOMAIN HIGHLIGHTS THEN Raise("KeyError")
  ELSE Ok(<<fmt_str(HIGHLIGHTS[on_color[1]])>> \o r.val)

\* if attrs is not None: for attr in attrs: ...
with_attrs(r, attrs) ==
  IF r.err # "none" \/ attrs = None THEN r ELSE colored_attrs(r.val, attrs[1])

\* text += RESET
with_reset(r) == IF r.err # "none" THEN r ELSE Ok(r.val \o <<RESET>>)

\* a faulty variant: the color code is put on last, outside the other codes
colored_color_outermost(text, color, on_color, attrs, fancy, env) ==
  IF color = None /\ on_color = None /\ attrs = None THEN Ok(text)
  ELSE IF ~(~env /\ fancy) THEN Ok(text)
  ELSE with_reset(with_color(with_highlight(with_attrs(Ok(text), attrs), on_color), color))

\* colored(text, color, on_color, attrs); fancy is printer.fancy_text and env
\* is os.getenv('ANSI_COLORS_DISABLED') is not None
colored(text, color, on_color, attrs, fancy, env) ==
  IF color = None /\ on_color = None /\ attrs = None THEN Ok(text)
  ELSE IF ~(~env /\ fancy) THEN Ok(text)
  ELSE with_reset(with_attrs(with_highlight(with_color(Ok(text), color), on_color), attrs))

\* the loop of _render: [color, highlight, attributes] after the arguments
RECURSIVE render_args(_, _)
render_args(args, acc) ==
  IF args = <<>> THEN acc
  ELSE
    LET arg == Head(args)
        nxt == IF arg \in DOMAIN COLORS THEN [acc EXCEPT !.color = Some(arg)]
               ELSE IF arg \in DOMAIN HIGHLIGHTS
                 THEN [acc EXCEPT !.highlight = Some(arg)]
               ELSE IF /\ arg \in DOMAIN ATTRIBUTES
                       /\ \A i \in 1..Len(acc.attributes) : acc.attributes[i] # arg
                 THEN [acc EXCEPT !.attributes = Append(@, arg)]
               ELSE acc
    IN render_args(Tail(args), nxt)

\* a group's content as one directive name: "red" for <<"red">>; a content of
\* several tokens is no key of COLORS, HIGHLIGHTS or ATTRIBUTES
ArgName(content) == IF Len(content) = 1 THEN content[1] ELSE "?"

RECURSIVE ArgNames(_)
ArgNames(groups) ==
  IF groups = <<>> THEN <<>>
  ELSE <<ArgName(Head(groups))>> \o ArgNames(Tail(groups))

\* colored(text, color, highlight, attributes) with what the loop gathered
colored_with(text, st, fancy, env) ==
  colored(text, st.color, st.highlight, Some(st.attributes), fancy, env)

\* return colored(...), text
render_result(ren, text) == [err |-> ren.err, ren |-> ren.val, raw |-> text]

\* _render(text, *args): the rendered text and the raw text; args are the
\* contents of the groups of one unit, the first being the text
_render(args, fancy, env) ==
  render_result(
    colored_with(Head(args),
                 render_args(ArgNames(Tail(args)),
                             [color |-> None, highlight |-> None, attributes |-> <<>>]),
                 fancy, env),
    Head(args))

\* the least element of a non-empty set of positions
First(S) == CHOOSE j \in S : \A k \in S : j <= k

\* the regular expression \{.+?\} tried at position i: the position of the
\* closing brace (the first '}' at i+2 or later), 0 when there is no match
GroupEnd(t, i) ==
  IF i > Len(t) \/ t[i] # "{" THEN 0
  ELSE LET js == {j \in (i + 2)..Len(t) : t[j] = "}"}
       IN IF js = {} THEN 0 ELSE First(js)

\* (?:\{.+?\})+ continued greedily from position i: the last position matched
RECURSIVE GroupsEnd(_, _, _)
GroupsEnd(t, i, last) ==
  LET e == GroupEnd(t, i)
  IN IF e = 0 THEN last ELSE GroupsEnd(t, e + 1, e)

\* the positions from p on where a unit starts
UnitStarts(t, lead, p) == {q \in p..Len(t) : t[q] = lead /\ GroupEnd(t, q + 1) # 0}

\* re.findall(lead + r'(?:\{.+?\})+', text), scanning from position p
RECURSIVE find_units(_, _, _)
unit_at(t, lead, q, e) == <<SubSeq(t, q, e)>> \o find_units(t, lead, e + 1)

units_from(t, lead, starts) ==
  IF starts = {} THEN <<>>
  ELSE unit_at(t, lead, First(starts), GroupsEnd(t, First(starts) + 1, 0))

find_units(t, lead, p) == units_from(t, lead, UnitStarts(t, lead, p))

\* re.findall(r'\{(.+?)\}', unit), scanning from position p
RECURSIVE find_args(_, _)
arg_at(t, q, e) == <<SubSeq(t, q + 1, e - 1)>> \o find_args(t, e + 1)

args_from(t, starts) ==
  IF starts = {} THEN <<>> ELSE arg_at(t, First(starts), GroupEnd(t, First(starts)))

find_args(t, p) == args_from(t, {q \in p..Len(t) : GroupEnd(t, q) # 0})

IsPrefixAt(t, old, p) ==
  /\ p + Len(old) - 1 <= Len(t)
  /\ \A i \in 1..Len(old) : t[p + i - 1] = old[i]

\* str.replace(old, new): every non-overlapping occurrence, left to right
RECURSIVE replace_from(_, _, _, _)
replace_at(t, old, new, p, found) ==
  IF old = <<>> \/ found = {} THEN SubSeq(t, p, Len(t))
  ELSE SubSeq(t, p, First(found) - 1) \o new
         \o replace_from(t, old, new, First(found) + Len(old))

replace_from(t, old, new, p) ==
  replace_at(t, old, new, p, {q \in p..Len(t) : IsPrefixAt(t, old, q)})

replace(t, old, new) == replace_from(t, old, new, 1)

\* the loop of parse over the units found
RECURSIVE parse_units(_, _, _, _, _)
parse_unit(units, rendered_text, raw_text, r, fancy, env) ==
  IF r.err # "none" THEN [err |-> r.err, ren |-> <<>>, raw |-> <<>>]
  ELSE parse_units(Tail(units), replace(rendered_text, Head(units), r.ren),
                   replace(raw_text, Head(units), r.raw), fancy, env)

parse_units(units, rendered_text, raw_text, fancy, env) ==
  IF units = <<>>
    THEN [err |-> "none", ren |-> rendered_text, raw |-> raw_text]
  ELSE parse_unit(units, rendered_text, raw_text,
                  _render(find_args(Head(units), 1), fancy, env), fancy, env)

\* if not fancy_text: rendered_text = raw_text
parse_result(r, fancy) ==
  IF r.err # "none" THEN r
  ELSE IF ~fancy THEN [r EXCEPT !.ren = r.raw]
  ELSE r

\* parse(text, lead): the rendered and the raw line
parse(text, lead, fancy, env) ==
  parse_result(parse_units(find_units(text, lead, 1), text, text, fancy, env), fancy)

DefaultTextWidth == 79   \* printer.clear_line(text_width=79)
BarWidth == 65           \* printer.print_progress(..., bar_width=65)

\* printer.clear_line(text_width): "\r{}\r".format(" " * text_width)
\* text * n
repeat(text, n) ==
  IF n <= 0 THEN <<>>
  ELSE [i \in 1..(n * Len(text)) |-> text[((i - 1) % Len(text)) + 1]]

printer_clear_line(text_width) == <<"\r">> \o repeat(<<" ">>, text_width) \o <<"\r">>

\* print(colored(ren, color, highlight, attributes)); return raw
printed_line(p, c) ==
  IF p.err # "none" THEN [err |-> p.err, out |-> <<>>, raw |-> <<>>]
  ELSE IF c.err # "none" THEN [err |-> c.err, out |-> <<>>, raw |-> <<>>]
  ELSE [err |-> "none", out |-> c.val \o <<"\n">>, raw |-> p.raw]

colored_parsed(p, color, highlight, attributes, fancy, env) ==
  IF p.err # "none" THEN Raise(p.err)
  ELSE colored(p.ren, color, highlight, attributes, fancy, env)

write_line_parsed(p, color, highlight, attributes, fancy, env) ==
  printed_line(p, colored_parsed(p, color, highlight, attributes, fancy, env))

\* printer.write_line(text, color, highlight, attributes): what print writes
\* and the raw text returned; colored raises before anything is printed
printer_write_line(text, color, highlight, attributes, fancy, env) ==
  write_line_parsed(parse(text, "#", fancy, env), color, highlight, attributes,
                    fancy, env)

\* stdout.write(colored(ren, color, highlight, attributes))
written_text(c) ==
  IF c.err # "none" THEN [err |-> c.err, out |-> <<>>]
  ELSE [err |-> "none", out |-> c.val]

\* printer.write(text, color, highlight, attributes): what stdout.write writes
printer_write(text, color, highlight, attributes, fancy, env) ==
  written_text(colored_parsed(parse(text, "#", fancy, env), color, highlight,
                              attributes, fancy, env))

\* decimal digits of a natural number
RECURSIVE Digits(_)
Digits(n) == IF n < 10 THEN <<ToString(n)>> ELSE Digits(n \div 10) \o <<ToString(n % 10)>>

\* '{:.0f}'.format(num / den) for num >= 0, den > 0: round half to even
Format0f(num, den) ==
  LET q == num \div den
      r == num % den
      n == IF 2 * r > den \/ (2 * r = den /\ q % 2 = 1) THEN q + 1 ELSE q
  IN Digits(n)

\* 1e-7 as the fraction 1 / EpsilonDen
EpsilonDen == 10000000

\* duration / max(progress, 1e-7) * (1 - progress), as a fraction
Eta(num, den, duration) ==
  IF num * EpsilonDen < den
    THEN <<duration * EpsilonDen * (den - num), den>>
    ELSE <<duration * (den - num), num>>

eta_tail(eta) == <<"E", "T", "A", ":", " ">> \o Format0f(eta[1], eta[2]) \o <<"s">>

\* the tail of the bar: the ETA when a start time is given, else the percentage
Tail_(num, den, start_time, t) ==
  IF start_time # None THEN eta_tail(Eta(num, den, t - start_time[1]))
  ELSE Format0f(100 * num, den) \o <<"%">>

\* clear_line(); stdout.write('[%s%s%s] %s' % ('=' * left, mid, ' ' * right, tail))
progress_bar(left, at_end, bar_width, tail) ==
  printer_clear_line(DefaultTextWidth)
    \o <<"[">> \o repeat(<<"=">>, left) \o <<IF at_end THEN "=" ELSE ">">>
    \o repeat(<<" ">>, bar_width - left) \o <<"]", " ">> \o tail

\* the bar for the fraction num / den, already clamped to 1.0
draw_progress(num, den, start_time, bar_width, t) ==
  [err |-> "none",
   out |-> progress_bar((num * bar_width) \div den, num = den, bar_width,
                        Tail_(num, den, start_time, t))]

\* progress = min(progress, 1.0)
clamped(frac, start_time, bar_width, t) ==
  IF frac[1] > frac[2] THEN draw_progress(1, 1, start_time, bar_width, t)
  ELSE draw_progress(frac[1], frac[2], start_time, bar_width, t)

\* printer.print_progress(index, total, start_time, progress, bar_width=65);
\* a fraction is a pair <<numerator, denominator>>, index and total are
\* integers, t is time.time()
printer_print_progress(index, total, start_time, progress, bar_width, t) ==
  IF progress = None /\ (index = None \/ total = None)
    THEN [err |-> "ValueError", out |-> <<>>]
  ELSE IF progress = None /\ total[1] = 0
    THEN [err |-> "ZeroDivisionError", out |-> <<>>]
  ELSE IF progress = None
    THEN clamped(<<index[1], total[1]>>, start_time, bar_width, t)
  ELSE clamped(progress[1], start_time, bar_width, t)

\* ------------------------------------------------------------- console.py
\* Console.fancify(text, *args)
RECURSIVE fancify_args(_)
fancify_args(args) ==
  IF args = <<>> THEN <<>>
  ELSE <<"{", Head(args), "}">> \o fancify_args(Tail(args))

fancify(text, args) == <<"#", "{">> \o text \o <<"}">> \o fancify_args(args)

TEXT_WIDTH == 79

DEFAULT_TITLE == <<"main">>
DEFAULT_PROMPT == <<">>">>
INFO_PROMPT == <<"::">>
SUPPLEMENT_PROMPT == <<"..">>
WARNING_PROMPT == <<"!!">>

\* A session in a call: its fields, and what the call has written (out),
\* raised (err) and returned (ret) so far.  An operation on a session that has
\* raised does nothing more: the exception propagates.

\* Console.clear_line()
Console_clear_line(self) ==
  [self EXCEPT !.out = @ \o printer_clear_line(TEXT_WIDTH)]

\* a faulty variant: the marker is not overwritten by the decorated call
auto_clear_keeps_marker(self, func) ==
  IF self.last = Some("print_progress") THEN Console_clear_line(self) ELSE self

\* the wrapper of auto_clear, up to the call of func
auto_clear(self, func) ==
  LET cleared == IF self.last = Some("print_progress")
                   THEN Console_clear_line(self) ELSE self
  IN [cleared EXCEPT !.last = Some(func)]

\* Console._add_to_buffer(line)
_add_to_buffer(self, line) ==
  IF self.buffer_size = 0 THEN self
  ELSE LET b == Append(self.buffer, line)
       IN [self EXCEPT !.buffer = IF Len(b) > self.buffer_size THEN Tail(b) ELSE b]

\* the raw text of a line written: the line without escape codes
Undecorated(line) == SelectSeq(line, LAMBDA tok : ~IsEscape(tok))

\* if buffer: self._add_to_buffer(text); the raw text of a completed buffered
\* write is recorded in the history self.written
buffered(self, raw, buffer) ==
  IF buffer
    THEN [_add_to_buffer(self, raw) EXCEPT !.written = Append(@, Undecorated(raw))]
  ELSE self

\* the session after printer.write_line returned or raised r
line_written(self, r, buffer) ==
  IF r.err # "none" THEN [self EXCEPT !.err = r.err]
  ELSE buffered([self EXCEPT !.out = @ \o r.out, !.ret = r.raw], r.raw, buffer)

\* the body of Console.write_line
write_line_func(self, text, st, buffer, fancy, env) ==
  line_written(self,
               printer_write_line(text, st.color, st.highlight, st.attributes,
                                  fancy, env),
               buffer)

\* Console.write_line(text, color, highlight, attributes, buffer), decorated
write_line(self, text, st, buffer, fancy, env) ==
  IF self.err # "none" THEN self
  ELSE write_line_func(auto_clear(self, "write_line"), text, st, buffer, fancy, env)

\* the session after printer.write returned or raised r
text_written(self, r) ==
  IF r.err # "none" THEN [self EXCEPT !.err = r.err]
  ELSE [self EXCEPT !.out = @ \o r.out]

\* a faulty variant: write is decorated with auto_clear like write_line
write_decorated(self, text, st, fancy, env) ==
  text_written(auto_clear(self, "write"),
               printer_write(text, st.color, st.highlight, st.attributes, fancy, env))

\* Console.write(text, color, highlight, attributes)
write(self, text, st, fancy, env) ==
  text_written(self,
               printer_write(text, st.color, st.highlight, st.attributes, fancy, env))

\* num = int(text_width / len(raw)); self.write_line(num * ren, ...)
split_parsed(self, p, width, st, fancy, env) ==
  IF p.err # "none" THEN [self EXCEPT !.err = p.err]
  ELSE IF Len(p.raw) = 0 THEN [self EXCEPT !.err = "ZeroDivisionError"]
  ELSE write_line(self, repeat(p.ren, width \div Len(p.raw)), st, TRUE, fancy, env)

\* Console.split(splitter, text_width, color, highlight, attributes); the
\* tokens of a splitter are single characters, so len(raw) is Len(raw)
split(self, splitter, text_width, st, fancy, env) ==
  IF self.err # "none" THEN self
  ELSE split_parsed(self, parse(splitter, "#", fancy, env),
                    IF text_width = None THEN TEXT_WIDTH ELSE text_width[1],
                    st, fancy, env)

ColorOnly(color) == [color |-> color, highlight |-> None, attributes |-> None]

\* a faulty variant: start does not keep the title
title_not_kept(self, t) == self

\* self._title = title
title_set(self, t) == IF self.err # "none" THEN self ELSE [self EXCEPT !.title = Some(t)]

start_titled(self, t, text_width, color, fancy, env) ==
  title_set(
    split(write_line(self, <<"-> Start of ">> \o t, ColorOnly(color), TRUE, fancy, env),
          <<"-">>, text_width, ColorOnly(color), fancy, env),
    t)

\* title or self.DEFAULT_TITLE: None and the empty title are both falsy
title_or_default(title) ==
  IF title = None \/ title = Some(<<>>) THEN DEFAULT_TITLE ELSE title[1]

\* Console.start(title, text_width, color)
start(self, title, text_width, color, fancy, env) ==
  start_titled(self, title_or_default(title), text_width, color, fancy, env)

\* '{}'.format(self._title)
TitleText(title) == IF title = None THEN <<"None">> ELSE title[1]

\* Console.end(text_width, color)
end(self, text_width, color, fancy, env) ==
  write_line(split(self, <<"-">>, text_width, ColorOnly(color), fancy, env),
             <<"|> End of ">> \o TitleText(self.title), ColorOnly(color), TRUE,
             fancy, env)

\* Console.section(section_title)
section(self, section_title, fancy, env) ==
  split(write_line(split(self, <<"-">>, None, NoStyle, fancy, env),
                   <<":: ">> \o section_title, NoStyle, TRUE, fancy, env),
        <<"-">>, None, NoStyle, fancy, env)

\* Console.show_status(text, color, highlight, attributes, prompt, buffer),
\* decorated
show_status(self, text, st, prompt, buffer, fancy, env) ==
  IF self.err # "none" THEN self
  ELSE write_line(auto_clear(self, "show_status"),
                  (IF prompt = None THEN DEFAULT_PROMPT ELSE prompt[1])
                    \o <<" ">> \o text,
                  st, buffer, fancy, env)

\* Console.show_info(text, color, highlight, attributes)
show_info(self, text, st, fancy, env) ==
  show_status(self, text, st, Some(INFO_PROMPT), TRUE, fancy, env)

\* Console.supplement(text, color, highlight, attributes, level)
supplement(self, text, st, level, fancy, env) ==
  IF ~(level > 0) THEN [self EXCEPT !.err = "AssertionError"]
  ELSE show_status(self, text, st, Some(repeat(SUPPLEMENT_PROMPT, level)), TRUE, fancy, env)

\* Console.warning(text, color, highlight, attributes)
warning(self, text, st, fancy, env) ==
  show_status(self, text, st, Some(WARNING_PROMPT), TRUE, fancy, env)

\* if index == 0: self._tic = time.time()
tic_started(self, index, t) ==
  IF index = Some(0) THEN [self EXCEPT !.tic = Some(t)] ELSE self

\* the session after printer.print_progress returned or raised r
progress_printed(self, r) ==
  IF r.err # "none" THEN [self EXCEPT !.err = r.err]
  ELSE [self EXCEPT !.out = @ \o r.out, !.last = Some("print_progress")]

progress_from(self, index, total, progress, t) ==
  progress_printed(self,
                   printer_print_progress(index, total, self.tic, progress, BarWidth, t))

\* Console.print_progress(index, total, progress); t is time.time()
print_progress(self, index, total, progress, t) ==
  progress_from(tic_started(self, index, t), index, total, progress, t)

\* ------------------------------------------------------------- inputs
RECURSIVE SeqsUpTo(_, _)
SeqsUpTo(S, n) ==
  IF n = 0 THEN {<<>>}
  ELSE LET shorter == SeqsUpTo(S, n - 1)
       IN shorter \cup {Append(q, x) : q \in shorter, x \in S}

Lit(text) == [markup |-> FALSE, payload |-> text, dirs |-> <<>>]
Run(text, dirs) == [markup |-> TRUE, payload |-> text, dirs |-> dirs]

\* the text a sequence of pieces stands for
RECURSIVE TextOf(_)
TextOf(pieces) ==
  IF pieces = <<>> THEN <<>>
  ELSE (IF Head(pieces).markup
          THEN fancify(Head(pieces).payload, Head(pieces).dirs)
          ELSE Head(pieces).payload) \o TextOf(Tail(pieces))

DirNames == {"red", "green", "on_red", "on_blue", "bold", "dark", "purple"}

\* one markup run with up to MaxDirs directive groups
SingleRunInputs == {<<Run(<<"a">>, d)>> : d \in SeqsUpTo(DirNames, MaxDirs)}

MultiPieces ==
  {Lit(<<" ">>), Run(<<"a">>, <<>>), Run(<<"a">>, <<"red">>),
   Run(<<"a">>, <<"red", "bold">>), Run(<<"b">>, <<"green">>)}

\* texts of up to MaxRuns pieces (plain text between markup runs)
MultiRunInputs == SeqsUpTo(MultiPieces, MaxRuns)

ParseInputs == SingleRunInputs \cup MultiRunInputs

StyleArgs ==
  [color : {None, Some("red"), Some("purple")},
   highlight : {None, Some("on_red")},
   attributes : {None} \cup {Some(l) : l \in SeqsUpTo({"bold", "dark", "shiny"}, MaxAttrs)}]

Sessions == {"c1", "c2"}

NoCall ==
  [fn |-> "none", self |-> "-", after_progress |-> FALSE, after_write |-> FALSE]

\* ------------------------------------------------------------- initial state
\* a fresh process: printer imported, no session operation called yet; the
\* sessions are constructed with fancy_text=True
InitProcess ==
  /\ fancy_text = TRUE
  /\ now = 0
  /\ _buffer = [s \in Sessions |-> <<>>]
  /\ _title = [s \in Sessions |-> None]
  /\ _last_func_called = [s \in Sessions |-> None]
  /\ _tic = [s \in Sessions |-> None]
  /\ out = <<>>
  /\ err = "none"
  /\ ret = <<>>
  /\ call = NoCall
  /\ pre = <<>>
  /\ written = [s \in Sessions |-> <<>>]
  /\ prev_op = [s \in Sessions |-> "none"]
  /\ write_since = [s \in Sessions |-> FALSE]
  /\ nops = 0
  /\ started = [s \in Sessions |-> None]
  /\ disabled = FALSE

\* ------------------------------------------------------------- the renderer alone
InitParse ==
  /\ InitProcess
  /\ ANSI_COLORS_DISABLED \in BOOLEAN
  /\ buffer_size = [s \in Sessions |-> 0]
  /\ \/ input \in ParseInputs /\ style = NoStyle
     \/ input = <<Lit(<<"a">>)>> /\ style \in StyleArgs

session_vars ==
  <<buffer_size, _buffer, _title, _last_func_called, _tic, written, prev_op,
    write_since, nops, started, now>>

\* printer.parse(TextOf(input))
CallParse ==
  /\ style = NoStyle
  /\ LET r == parse(TextOf(input), "#", fancy_text, ANSI_COLORS_DISABLED)
     IN /\ err' = r.err
        /\ ret' = <<r.ren, r.raw>>
  /\ call' = [NoCall EXCEPT !.fn = "parse"]
  /\ out' = <<>>
  /\ pre' = <<>>
  /\ UNCHANGED <<session_vars, fancy_text, ANSI_COLORS_DISABLED, disabled, input, style>>

\* printer.colored(TextOf(input), color, on_color, attrs)
CallColored ==
  /\ LET r == colored(TextOf(input), style.color, style.highlight,
                      style.attributes, fancy_text, ANSI_COLORS_DISABLED)
     IN /\ err' = r.err
        /\ ret' = r.val
  /\ call' = [NoCall EXCEPT !.fn = "colored"]
  /\ out' = <<>>
  /\ pre' = <<>>
  /\ UNCHANGED <<session_vars, fancy_text, ANSI_COLORS_DISABLED, disabled, input, style>>

\* Console.disable_fancy_text()
DisableFancyText ==
  /\ fancy_text' = FALSE
  /\ disabled' = TRUE
  /\ call' = [NoCall EXCEPT !.fn = "disable_fancy_text"]
  /\ out' = <<>>
  /\ err' = "none"
  /\ ret' = <<>>
  /\ pre' = <<>>
  /\ UNCHANGED <<session_vars, ANSI_COLORS_DISABLED, input, style>>

NextParse == CallParse \/ CallColored \/ DisableFancyText

SpecParse == InitParse /\ [][NextParse]_vars

\* ------------------------------------------------------------- the sessions
\* the session s entering a call
Self(s) ==
  [buffer_size |-> buffer_size[s], buffer |-> _buffer[s], title |-> _title[s],
   last |-> _last_func_called[s], tic |-> _tic[s], written |-> written[s],
   out |-> <<>>, err |-> "none", ret |-> <<>>]

\* the fields of a session that an operation may change
Fields(self) ==
  [buffer |-> self.buffer, last |-> self.last, tic |-> self.tic, title |-> self.title]

\* an operation took place when it completed or wrote to the sink
TookPlace(r) == r.err = "none" \/ r.out # <<>>

\* the call fn on session s leaves the session as r
Committed(s, fn, r) ==
  /\ nops < MaxOps
  /\ nops' = nops + 1
  /\ _buffer' = [_buffer EXCEPT ![s] = r.buffer]
  /\ _title' = [_title EXCEPT ![s] = r.title]
  /\ _last_func_called' = [_last_func_called EXCEPT ![s] = r.last]
  /\ _tic' = [_tic EXCEPT ![s] = r.tic]
  /\ written' = [written EXCEPT ![s] = r.written]
  /\ out' = r.out
  /\ err' = r.err
  /\ ret' = r.ret
  /\ call' = [fn |-> fn, self |-> s,
              after_progress |-> prev_op[s] = "print_progress",
              after_write |-> write_since[s]]
  /\ pre' = IF r.err # "none" \/ fn = "write" THEN Fields(Self(s)) ELSE <<>>
  /\ prev_op' = [prev_op EXCEPT ![s] =
                   IF fn = "write" \/ ~TookPlace(r) THEN @
                   ELSE IF fn = "print_progress" THEN "print_progress" ELSE "line"]
  /\ write_since' = [write_since EXCEPT ![s] =
                       IF fn = "write" THEN TRUE
                       ELSE IF TookPlace(r) THEN FALSE ELSE @]
  /\ UNCHANGED <<fancy_text, ANSI_COLORS_DISABLED, now, buffer_size, disabled,
                 input, style>>

\* a call other than start
Commit(s, fn, r) == Committed(s, fn, r) /\ UNCHANGED started

\* a call of start: when it completes, the title passed is the one to remember
CommitStart(s, title, r) ==
  /\ Committed(s, "start", r)
  /\ started' = [started EXCEPT ![s] = IF r.err = "none" THEN Some(title) ELSE @]

WriteLine(s, text, st, buffer) ==
  Commit(s, "write_line",
         write_line(Self(s), text, st, buffer, fancy_text, ANSI_COLORS_DISABLED))

Write(s, text, st) ==
  Commit(s, "write", write(Self(s), text, st, fancy_text, ANSI_COLORS_DISABLED))

Split(s, splitter, text_width, st) ==
  Commit(s, "split",
         split(Self(s), splitter, text_width, st, fancy_text, ANSI_COLORS_DISABLED))

\* start(title, color=color); title None stands for start called without one
Start(s, title, color) ==
  CommitStart(s, title,
              start(Self(s), title, None, color, fancy_text, ANSI_COLORS_DISABLED))

End(s) ==
  Commit(s, "end", end(Self(s), None, Some("grey"), fancy_text, ANSI_COLORS_DISABLED))

Section(s, section_title) ==
  Commit(s, "section",
         section(Self(s), section_title, fancy_text, ANSI_COLORS_DISABLED))

ShowStatus(s, text, st, prompt, buffer) ==
  Commit(s, "show_status",
         show_status(Self(s), text, st, prompt, buffer, fancy_text,
                     ANSI_COLORS_DISABLED))

ShowInfo(s, text, st) ==
  Commit(s, "show_info",
         show_info(Self(s), text, st, fancy_text, ANSI_COLORS_DISABLED))

Supplement(s, text, st, level) ==
  Commit(s, "supplement",
         supplement(Self(s), text, st, level, fancy_text, ANSI_COLORS_DISABLED))

\* warning(text, color='red', ...): st carries the color actually passed
Warning(s, text, st) ==
  Commit(s, "warning", warning(Self(s), text, st, fancy_text, ANSI_COLORS_DISABLED))

PrintProgress(s, index, total, progress) ==
  Commit(s, "print_progress", print_progress(Self(s), index, total, progress, now))

\* a faulty variant: the flag follows the argument of the latest constructor call
init_fancy_text_follows_argument(flag, fancy) == fancy

\* printer.fancy_text after Console.__init__(buffer_size, fancy_text=fancy)
init_fancy_text(flag, fancy) == IF ~fancy THEN FALSE ELSE flag

\* Console(buffer_size=k, fancy_text=fancy): a new session in the place of s
Construct(s, k, fancy) ==
  /\ nops < MaxOps
  /\ nops' = nops + 1
  /\ buffer_size' = [buffer_size EXCEPT ![s] = k]
  /\ fancy_text' = init_fancy_text(fancy_text, fancy)
  /\ disabled' = (disabled \/ ~fancy)
  /\ _buffer' = [_buffer EXCEPT ![s] = <<>>]
  /\ _title' = [_title EXCEPT ![s] = None]
  /\ _last_func_called' = [_last_func_called EXCEPT ![s] = None]
  /\ _tic' = [_tic EXCEPT ![s] = None]
  /\ written' = [written EXCEPT ![s] = <<>>]
  /\ prev_op' = [prev_op EXCEPT ![s] = "none"]
  /\ write_since' = [write_since EXCEPT ![s] = FALSE]
  /\ started' = [started EXCEPT ![s] = None]
  /\ out' = <<>>
  /\ err' = "none"
  /\ ret' = <<>>
  /\ pre' = <<>>
  /\ call' = [NoCall EXCEPT !.fn = "__init__", !.self = s]
  /\ UNCHANGED <<ANSI_COLORS_DISABLED, now, input, style>>

\* Console.clear_line(), a static method
ClearLine ==
  /\ out' = printer_clear_line(TEXT_WIDTH)
  /\ err' = "none"
  /\ ret' = <<>>
  /\ pre' = <<>>
  /\ call' = [NoCall EXCEPT !.fn = "clear_line"]
  /\ UNCHANGED <<session_vars, fancy_text, ANSI_COLORS_DISABLED, disabled, input, style>>

\* time passes
Tick ==
  /\ now < MaxTime
  /\ now' = now + 1
  /\ UNCHANGED <<fancy_text, ANSI_COLORS_DISABLED, buffer_size, _buffer, _title,
                 _last_func_called, _tic, out, err, ret, call, pre, written,
                 prev_op, write_since, nops, started, disabled, input, style>>

\* ------------------------------------------------------------- specifications
\* texts, styles and progress arguments the session operations are called with
PlainText == <<"a">>
MarkupText == fancify(<<"b">>, <<"red">>)
MarkupSplitter == fancify(<<"-">>, <<"red">>)
Styled == [color |-> Some("red"), highlight |-> Some("on_red"), attributes |-> Some(<<"bold">>)]
BadColor == ColorOnly(Some("purple"))
BadHighlight == [color |-> None, highlight |-> Some("on_purple"), attributes |-> None]
BadAttribute == [color |-> None, highlight |-> None, attributes |-> Some(<<"shiny">>)]

\* (index, total, progress) of the print_progress calls
ProgressArgs ==
  {<<None, None, None>>, <<Some(0), None, None>>, <<Some(0), Some(2), None>>,
   <<None, None, Some(<<3, 2>>)>>}

\* the sessions exist, constructed with buffer_size = MaxBuf
Init ==
  /\ InitProcess
  /\ ANSI_COLORS_DISABLED = FALSE
  /\ buffer_size = [s \in Sessions |-> MaxBuf]
  /\ input = <<Run(<<"a">>, <<"red">>)>>
  /\ style = NoStyle

\* the operations of a session, with the calls that fail
Next ==
  \/ \E s \in Sessions :
       \/ \E st \in {NoStyle, BadColor} : WriteLine(s, PlainText, st, TRUE)
       \/ \E st \in {NoStyle, BadHighlight} : ShowStatus(s, PlainText, st, None, TRUE)
       \/ \E a \in ProgressArgs : PrintProgress(s, a[1], a[2], a[3])
  \/ \E st \in {NoStyle, BadColor} : Write("c1", PlainText, st)
  \/ Split("c1", <<"-">>, None, NoStyle)
  \/ Start("c1", None, Some("grey"))
  \/ End("c1")
  \/ Section("c1", <<"t">>)
  \/ ShowInfo("c1", PlainText, NoStyle)
  \/ \E st \in {ColorOnly(Some("red")), BadAttribute} : Warning("c1", PlainText, st)
  \/ \E level \in {0, 1} : Supplement("c1", PlainText, NoStyle, level)
  \/ ClearLine
  \/ Tick

Spec == Init /\ [][Next]_vars

\* the operations that write lines, buffered or not, and those that do not
NextBuffer ==
  \/ \E s \in Sessions :
       \/ \E text \in {PlainText, MarkupText}, buffer \in BOOLEAN :
            WriteLine(s, text, NoStyle, buffer)
       \/ WriteLine(s, PlainText, BadColor, TRUE)
       \/ \E k \in 0..MaxBuf : Construct(s, k, TRUE)
  \/ Write("c1", PlainText, NoStyle)
  \/ \E splitter \in {<<"-">>, MarkupSplitter} : Split("c1", splitter, None, NoStyle)
  \/ Start("c1", Some(<<"t">>), Some("grey"))
  \/ End("c1")
  \/ Section("c1", <<"t">>)
  \/ \E buffer \in BOOLEAN : ShowStatus("c1", PlainText, NoStyle, None, buffer)
  \/ ShowInfo("c1", MarkupText, NoStyle)
  \/ Warning("c1", PlainText, ColorOnly(Some("red")))
  \/ Supplement("c1", PlainText, NoStyle, 2)
  \/ PrintProgress("c1", None, None, Some(<<1, 2>>))

SpecBuffer == Init /\ [][NextBuffer]_vars

\* fancy text switched off, by disable_fancy_text or by a constructor
NextFancy ==
  \/ DisableFancyText
  \/ CallParse
  \/ \E s \in Sessions :
       \/ \E fancy \in BOOLEAN : Construct(s, MaxBuf, fancy)
       \/ \E text \in {PlainText, MarkupText}, st \in {NoStyle, Styled} :
            WriteLine(s, text, st, TRUE)
       \/ \E text \in {PlainText, MarkupText}, st \in {NoStyle, Styled} :
            Write(s, text, st)
       \/ Split(s, MarkupSplitter, None, Styled)
       \/ Warning(s, MarkupText, ColorOnly(Some("red")))
       \/ Start(s, None, Some("grey"))

InitFancy ==
  /\ InitProcess
  /\ ANSI_COLORS_DISABLED = FALSE
  /\ buffer_size = [s \in Sessions |-> MaxBuf]
  /\ input \in {<<Run(<<"a">>, <<"red">>)>>, <<Lit(<<"a">>)>>,
                <<Run(<<"a">>, <<"bold">>), Lit(<<" ">>), Run(<<"b">>, <<"on_red">>)>>}
  /\ style = NoStyle

SpecFancy == InitFancy /\ [][NextFancy]_vars

\* the titles start is called with: none, two titles, the empty title
Titles == {None, Some(<<"t">>), Some(<<"u">>), Some(<<>>)}

\* start and end on both sessions, with other operations in between
NextTitle ==
  \/ \E s \in Sessions :
       \/ \E title \in Titles, color \in {Some("grey"), Some("purple")} :
            Start(s, title, color)
       \/ End(s)
  \/ \E st \in {NoStyle, BadColor} : WriteLine("c1", PlainText, st, TRUE)
  \/ ShowStatus("c1", PlainText, NoStyle, None, TRUE)
  \/ Split("c1", <<"-">>, None, NoStyle)
  \/ Section("c1", <<"t">>)
  \/ PrintProgress("c1", None, None, Some(<<1, 2>>))
  \/ Write("c1", PlainText, NoStyle)

SpecTitle == Init /\ [][NextTitle]_vars

\* completion fractions print_progress is called with, from 0 to beyond 1
ProgressFractions == {<<0, 1>>, <<1, 20000>>, <<1, 100>>, <<1, 2>>, <<1, 1>>, <<3, 2>>}

\* progress bars with and without a running timer, while time passes
NextProgress ==
  \/ \E s \in Sessions :
       \/ \E index \in 0..2 : PrintProgress(s, Some(index), Some(2), None)
       \/ \E f \in ProgressFractions : PrintProgress(s, None, None, Some(f))
       \/ WriteLine(s, PlainText, NoStyle, TRUE)
  \/ Tick

SpecProgress == Init /\ [][NextProgress]_vars

\* ------------------------------------------------------------- claims: the renderer
Recognized(name) ==
  name \in DOMAIN COLORS \cup DOMAIN HIGHLIGHTS \cup DOMAIN ATTRIBUTES

HasUnrecognized(pieces) ==
  \E i \in DOMAIN pieces :
    /\ pieces[i].markup
    /\ \E j \in DOMAIN pieces[i].dirs : ~Recognized(pieces[i].dirs[j])

\* C3: parse fails with an error whenever a markup segment holds a directive
\* group that is no color, highlight or attribute name; an unrecognized
\* directive is never silently ignored.
C3_UnrecognizedDirectiveRaises ==
  (call.fn = "parse" /\ HasUnrecognized(input)) => err # "none"

\* the raw text the pieces stand for: every run replaced by its own payload
RECURSIVE OwnRaw(_)
OwnRaw(pieces) ==
  IF pieces = <<>> THEN <<>> ELSE Head(pieces).payload \o OwnRaw(Tail(pieces))

\* the groups of a run: its payload, then one group per directive
RECURSIVE DirGroups(_)
DirGroups(dirs) ==
  IF dirs = <<>> THEN <<>> ELSE <<<<Head(dirs)>>>> \o DirGroups(Tail(dirs))

OwnDecorated(piece) ==
  IF piece.markup
    THEN _render(<<piece.payload>> \o DirGroups(piece.dirs), fancy_text,
                 ANSI_COLORS_DISABLED).ren
    ELSE piece.payload

\* the decorated text: every run replaced by its own decorated payload
RECURSIVE OwnRendered(_)
OwnRendered(pieces) ==
  IF pieces = <<>> THEN <<>>
  ELSE OwnDecorated(Head(pieces)) \o OwnRendered(Tail(pieces))

\* C7: parse resolves every markup run of a text independently: the raw output
\* is the text with each run replaced by its own payload and the decorated
\* output is the text with each run replaced by its own decorated payload, also
\* when a run occurs twice or is a prefix of a later run.
C7_RunsResolvedIndependently ==
  (call.fn = "parse" /\ err = "none") =>
    /\ ret[2] = OwnRaw(input)
    /\ ret[1] = IF fancy_text THEN OwnRendered(input) ELSE OwnRaw(input)

Reverse(q) == [i \in 1..Len(q) |-> q[Len(q) + 1 - i]]

RECURSIVE AttrCodes(_)
AttrCodes(attrs) ==
  IF attrs = <<>> THEN <<>>
  ELSE <<fmt_str(ATTRIBUTES[Head(attrs)])>> \o AttrCodes(Tail(attrs))

ColorCode(color) == IF color = None THEN <<>> ELSE <<fmt_str(COLORS[color[1]])>>
HighlightCode(hl) == IF hl = None THEN <<>> ELSE <<fmt_str(HIGHLIGHTS[hl[1]])>>

\* the directives of a run as parse gathers them: the last color, the last
\* highlight, the attributes in the order first met
RECURSIVE LastOf(_, _)
LastOf(dirs, names) ==
  IF dirs = <<>> THEN None
  ELSE IF dirs[Len(dirs)] \in names THEN Some(dirs[Len(dirs)])
  ELSE LastOf(SubSeq(dirs, 1, Len(dirs) - 1), names)

RECURSIVE AttrsOf(_, _)
AttrsOf(dirs, seen) ==
  IF dirs = <<>> THEN <<>>
  ELSE IF Head(dirs) \in DOMAIN ATTRIBUTES /\ Head(dirs) \notin seen
    THEN <<Head(dirs)>> \o AttrsOf(Tail(dirs), seen \cup {Head(dirs)})
  ELSE AttrsOf(Tail(dirs), seen)

ValidStyle(st) ==
  /\ st.color # None => st.color[1] \in DOMAIN COLORS
  /\ st.highlight # None => st.highlight[1] \in DOMAIN HIGHLIGHTS
  /\ st.attributes # None =>
       \A i \in DOMAIN st.attributes[1] : st.attributes[1][i] \in DOMAIN ATTRIBUTES

ListOf(attributes) == IF attributes = None THEN <<>> ELSE attributes[1]

\* color innermost: the attribute codes, the last one leftmost, then the
\* highlight code, then the color code next to the text, then one reset
ColorInnermost(text, color, hl, attrs) ==
  Reverse(AttrCodes(attrs)) \o HighlightCode(hl) \o ColorCode(color) \o text \o <<RESET>>

\* color outermost: the color code leftmost, then the highlight code, then the
\* attribute codes, the first one next to the text, then one reset
ColorOutermost(text, color, hl, attrs) ==
  ColorCode(color) \o HighlightCode(hl) \o Reverse(AttrCodes(attrs)) \o text \o <<RESET>>

\* a call of colored with valid names that applies some styling
StyledColoredCall ==
  /\ call.fn = "colored"
  /\ fancy_text /\ ~ANSI_COLORS_DISABLED
  /\ ValidStyle(style)
  /\ style.color # None \/ style.highlight # None \/ ListOf(style.attributes) # <<>>

\* a call of parse on one run that holds a recognized directive
StyledParseCall ==
  /\ call.fn = "parse"
  /\ fancy_text /\ ~ANSI_COLORS_DISABLED
  /\ Len(input) = 1 /\ input[1].markup
  /\ \E j \in DOMAIN input[1].dirs : Recognized(input[1].dirs[j])

\* C8 (as stated): for a styled segment the payload is wrapped first with the
\* attribute codes in the order met, then the highlight code, then the color
\* code, so that the color code is the leftmost escape and the first attribute's
\* code is next to the payload, followed by one reset.
C8_ColorOutermost ==
  /\ StyledColoredCall =>
       ret = ColorOutermost(TextOf(input), style.color, style.highlight,
                            ListOf(style.attributes))
  /\ StyledParseCall =>
       ret[1] = ColorOutermost(input[1].payload,
                               LastOf(input[1].dirs, DOMAIN COLORS),
                               LastOf(input[1].dirs, DOMAIN HIGHLIGHTS),
                               AttrsOf(input[1].dirs, {}))

\* C8 (amended): for a styled segment the payload is wrapped first with the
\* color code, then the highlight code, then the attribute codes in the order
\* met (duplicates skipped by parse), each later wrapping outside the earlier
\* ones, so that the color code is next to the payload and the last attribute's
\* code is the leftmost escape, followed by exactly one reset at the end.
C8_ColorInnermost ==
  /\ StyledColoredCall =>
       /\ err = "none"
       /\ ret = ColorInnermost(TextOf(input), style.color, style.highlight,
                               ListOf(style.attributes))
  /\ StyledParseCall =>
       /\ err = "none"
       /\ ret[1] = ColorInnermost(input[1].payload,
                                  LastOf(input[1].dirs, DOMAIN COLORS),
                                  LastOf(input[1].dirs, DOMAIN HIGHLIGHTS),
                                  AttrsOf(input[1].dirs, {}))

\* colored('a', 'red', 'on_red', ['bold', 'dark']) has returned the codes of
\* dark, bold, on_red and red, in this order, then the text and one reset
C8_Witness ==
  /\ StyledColoredCall
  /\ style = [color |-> Some("red"), highlight |-> Some("on_red"),
              attributes |-> Some(<<"bold", "dark">>)]
  /\ ret = <<"ESC[2m", "ESC[1m", "ESC[41m", "ESC[31m", "a", RESET>>

\* C9: a reset code is emitted only when some styling was applied: colored
\* with color and highlight unset and attributes unset or empty returns the
\* text unchanged, and parse of a segment with a payload group and no directive
\* yields the payload, with no escape code and no reset.
C9_NoResetWithoutStyling ==
  /\ ( /\ call.fn = "colored"
       /\ style.color = None /\ style.highlight = None
       /\ ListOf(style.attributes) = <<>> )
       => (err = "none" /\ ret = TextOf(input))
  /\ ( /\ call.fn = "parse"
       /\ Len(input) = 1 /\ input[1].markup /\ input[1].dirs = <<>> )
       => (err = "none" /\ ret[1] = input[1].payload)

\* ------------------------------------------------------------- claims: the session
Min(a, b) == IF a < b THEN a ELSE b

\* the last n elements of a sequence
LastN(q, n) == SubSeq(q, Len(q) - n + 1, Len(q))

\* C1: for a session constructed with buffer_size = k >= 0, after N completed
\* buffered line writes interleaved with any other operations the line buffer
\* holds exactly min(N, k) entries, the raw texts of the most recent min(N, k)
\* buffered writes in the order written; with k = 0 the buffer is always empty.
C1_BufferHoldsMostRecent ==
  \A s \in Sessions :
    _buffer[s] = LastN(written[s], Min(Len(written[s]), buffer_size[s]))

\* a line without escape codes and without a markup run left in it
RawLine(line) ==
  /\ \A i \in DOMAIN line : ~IsEscape(line[i])
  /\ \A i \in DOMAIN line : ~(line[i] = "#" /\ GroupEnd(line, i + 1) # 0)

\* C5: every entry of the line buffer is a raw line: it holds no escape
\* sequence and no unresolved markup, whatever operation wrote it, also after
\* split with a splitter that holds markup while fancy text is enabled.
C5_BufferLinesRaw ==
  \A s \in Sessions : \A i \in DOMAIN _buffer[s] : RawLine(_buffer[s][i])

LineOps ==
  {"write_line", "show_status", "show_info", "warning", "supplement", "split",
   "start", "end", "section"}

\* the positions of the carriage returns written: two for every line erase
Returns(o) == {i \in DOMAIN o : o[i] = "\r"}

\* the output begins with one erase of the line and holds no other
ErasedOnceFirst(o) ==
  /\ Len(o) >= TEXT_WIDTH + 2
  /\ SubSeq(o, 1, TEXT_WIDTH + 2) = printer_clear_line(TEXT_WIDTH)
  /\ Returns(o) = {1, TEXT_WIDTH + 2}

\* the last call took place: it completed or wrote to the sink
CallTookPlace == err = "none" \/ out # <<>>

C4_NoPartialFailure ==
  (call.self \in Sessions /\ err # "none") =>
    /\ out = <<>>
    /\ Fields(Self(call.self)) = pre

\* C10: write changes neither the line buffer nor the last-operation marker
\* and never erases the line; after print_progress and then write calls the
\* next line-writing operation still erases, after a line-writing operation
\* and then write calls the next line-writing operation does not.
C10_WriteLeavesMarker ==
  /\ call.fn = "write" =>
       /\ Fields(Self(call.self)) = pre
       /\ Returns(out) = {}
  /\ (call.fn \in LineOps /\ call.after_write) =>
       IF call.after_progress /\ CallTookPlace
         THEN ErasedOnceFirst(out)
         ELSE Returns(out) = {}

\* a progress bar, then write, then a line: the line begins with the erase
C10_Witness ==
  /\ call.fn \in LineOps
  /\ call.after_write
  /\ call.after_progress
  /\ err = "none"
  /\ ErasedOnceFirst(out)

\* C6: the fancy-text flag is process-wide and one-way: once a session called
\* disable_fancy_text or was constructed with fancy_text=False, for every
\* session, also one constructed afterwards with fancy_text=True, parse returns
\* decorated = raw and write_line and write emit no escape code.
C6_FancyOffForGood ==
  disabled =>
    /\ ~fancy_text
    /\ call.fn = "parse" => (err = "none" /\ ret[1] = ret[2])
    /\ \A i \in DOMAIN out : ~IsEscape(out[i])

\* a styled line written after fancy text was disabled
C6_Witness ==
  /\ disabled
  /\ call.fn \in {"write_line", "write"}
  /\ err = "none"
  /\ out # <<>>
  /\ nops = MaxOps

\* ------------------------------------------------------------- claims: the titles
\* the title a line "|> End of ..." announces: what follows the words, up to
\* the line break, escape codes left out
Announced(o) ==
  LET u == Undecorated(o)
      i == CHOOSE k \in DOMAIN u : u[k] = "|> End of "
  IN SubSeq(u, i + 1, Len(u) - 1)

\* end has completed on a session on which a start had completed
EndAfterStart ==
  /\ call.fn = "end" /\ err = "none"
  /\ started[call.self] # None

\* the title passed to the last completed start of the session of the call
Passed == started[call.self][1]

\* C11 (as stated): when start has been called on a session, end announces
\* the title passed to the most recent start call on that session, the default
\* title when start was called without one, whatever operations came in
\* between and whatever was started on other sessions.
C11_EndAnnouncesTitlePassed ==
  EndAfterStart =>
    Announced(out) = IF Passed = None THEN DEFAULT_TITLE ELSE Passed[1]

\* C11 (amended): end announces the title passed to the most recent completed
\* start call on that session, the default title when start was called
\* without a title or with the empty title, whatever operations came in
\* between and whatever was started on other sessions.
C11_EndAnnouncesTitleOrDefault ==
  EndAfterStart =>
    Announced(out) = IF Passed = None \/ Passed = Some(<<>>) THEN DEFAULT_TITLE
                     ELSE Passed[1]

\* end announces "t" on c1 after start("u") on c2 came in between
C11_Witness ==
  /\ EndAfterStart
  /\ call.self = "c1"
  /\ Passed = Some(<<"t">>)
  /\ started["c2"] = Some(Some(<<"u">>))
  /\ Announced(out) = <<"t">>

\* ------------------------------------------------------------- claims: the progress line
\* what stays on the current line: the output after the last carriage return
CurrentLine(o) ==
  IF Returns(o) = {} THEN o
  ELSE SubSeq(o, (CHOOSE i \in Returns(o) : \A j \in Returns(o) : j <= i) + 1, Len(o))

\* the number of spaces an erase of the line writes
ErasedWidth ==
  Cardinality({i \in DOMAIN printer_clear_line(TEXT_WIDTH) :
                 printer_clear_line(TEXT_WIDTH)[i] = " "})

\* C12: the erase that follows a progress draw covers the whole progress
\* line: for every completion fraction and every elapsed time since the timer
\* start, the line print_progress draws ('[', the bar cells, '] ' and the
\* percentage or the ETA) is at most as long as the spaces clear_line writes.
C12_EraseCoversProgressLine ==
  (call.fn = "print_progress" /\ err = "none") =>
    Len(CurrentLine(out)) <= ErasedWidth

====
